---- MODULE Spec2Model ----
(***************************************************************************)
(* m3u8_downloader_rs: the library pipeline of src/lib.rs.                 *)
(*   run -> fetch_and_parse_playlist -> download_segments                  *)
(*       -> merge_segments -> cleanup_segments                             *)
(* One run of the pipeline is modelled as a state machine.  Every await    *)
(* of a chunk task is a step of its own, so that the tasks spawned by      *)
(* download_segments interleave as they do on the tokio runtime.           *)
(***************************************************************************)
EXTENDS Integers, Sequences, FiniteSets, Bags

\* ------------------------------------------------------------------ bounds
MaxChunks == 2      \* longest media playlist a server answers with
MaxConc == 2        \* largest --threads value
MaxVariants == 2    \* longest variant list of a master playlist
MaxBandwidth == 2   \* bandwidths are 1..MaxBandwidth
MaxUrls == 1        \* playlist URLs are 1..MaxUrls
MaxIvDigits == 32   \* most hexadecimal digits in an IV attribute
MaxIndex == 16      \* chunk indices of the key material are 0..MaxIndex and a few large ones
MaxKeyLen == 40     \* longest key response, in bytes
MaxPlainLen == 33   \* longest plaintext given to the encrypting side, in bytes
MaxResponses == 3   \* responses the server has ready for one chunk's requests

\* ------------------------------------------------------- program constants
MAX_RETRIES == 3
INITIAL_DELAY_MS == 100
BLOCK_SIZE == 16    \* aes::Aes128: the block of the cipher, in bytes

VARIABLES
    pc,            \* position of run / fetch_and_parse_playlist / download_segments
    threads,       \* args.threads
    no_merge,      \* args.no_merge, once run has read it
    keep_segments, \* args.keep_segments, once run has read it
    url,           \* the playlist URL of the current fetch_and_parse_playlist call
    playlist,      \* the parsed response of the current call (None before it arrives)
    best_variant,  \* index of the variant chosen in a master playlist (0: none)
    segments,      \* media_playlist.segments as download_segments reads it: the URIs
    key_info,      \* Option<KeyInfo> returned by fetch_and_parse_playlist
    files,         \* output_dir: the state of index<i>.ts for every i
    tasks,         \* the chunk tasks of download_segments, by chunk index
    next,          \* position of stream::iter(segments_info)
    inProgress,    \* the JoinHandles held by buffer_unordered
    pb_pos,        \* position of the progress bar
    results,       \* the Vec<Result<()>> of download_segments, as a bag
    merge_calls,   \* number of calls of merge_segments
    cleanup_calls, \* number of calls of cleanup_segments
    merge_out,     \* how merge_segments ended ("none": not called)
    filelist,      \* output_dir/filelist.txt: "absent", "present", or
                   \* "remove_failed" (remove_file was called and failed)
    listed,        \* the lines merge_segments wrote to filelist.txt: the
                   \* number k for the line file 'index<k>.ts'
    output,        \* the merged output as an entry of the segment directory:
                   \* "none", "ts" (its name ends in .ts), "other", "removed"
    cleanup_log    \* cleanup_segments: the files it tried to remove, those it
                   \* could not remove, whether the directory could be read,
                   \* and its Result ("none": not called)

\* The key material of one chunk task (downloader.rs lines 70-108), byte by
\* byte, from the IV attribute of the playlist's key tag to the key and IV
\* handed to download_segment.
VARIABLES
    kpc,           \* position in the key material code ("idle": not followed)
    iv_attr,       \* m3u8_rs Key.iv: the IV attribute of the tag, Option<String>
    ki_iv,         \* KeyInfo.iv
    idx,           \* i, the index of the chunk
    key_resp,      \* the body of the key response
    key_bytes,     \* key_bytes
    iv_str,        \* iv_str
    iv_decoded,    \* the Vec that hex::decode returned
    iv_bytes       \* iv_bytes

\* One call of decrypt_data (crypto.rs), byte by byte.
VARIABLES
    cpc,           \* "idle": not followed; "call": before the call; "done"
    plaintext,     \* what the other side encrypted
    tamper,        \* what happened to the ciphertext on its way
    ckey,          \* key
    civ,           \* iv
    encrypted_data, \* encrypted_data
    decrypted      \* the Result of decrypt_data

\* One chunk given to the two download_segment functions of the repository,
\* the one of the library (downloader.rs) and the one of the binary
\* (main.rs), against the same responses of the server.
VARIABLES
    dpc,           \* "idle": not followed; "run"
    responses,     \* what the k-th request for the chunk ends with
    lib_task,      \* the call of downloader.rs download_segment
    bin_task       \* the call of main.rs download_segment

mainvars == <<pc, threads, no_merge, keep_segments, url, playlist, best_variant,
              segments, key_info, files, tasks, next, inProgress, pb_pos, results,
              merge_calls, cleanup_calls, merge_out, filelist, listed, output,
              cleanup_log>>
keyvars == <<kpc, iv_attr, ki_iv, idx, key_resp, key_bytes, iv_str, iv_decoded,
             iv_bytes>>
cryptovars == <<cpc, plaintext, tamper, ckey, civ, encrypted_data, decrypted>>
segvars == <<dpc, responses, lib_task, bin_task>>
vars == <<mainvars, keyvars, cryptovars, segvars>>

\* Option<T>
None == <<>>
Some(x) == <<x>>
IsSome(o) == Len(o) = 1
Unwrap(o) == o[1]

\* ------------------------------------------------------------ playlist.rs
BadUri == 0                       \* a URI that Url::join rejects
NoUrl == 0                        \* no call of fetch_and_parse_playlist is running
Urls == 1..MaxUrls
Variant == [bandwidth : 1..MaxBandwidth, uri : {BadUri} \cup Urls]
\* Lines 44-46 on the Key of m3u8_rs: method is k.method.to_string(), uri
\* is k.uri.clone().unwrap_or_default().  A tag with METHOD=NONE has no URI
\* attribute and gets the empty string, which Url::parse rejects and
\* base_url.join accepts (the result is the base URL).
KeyDescriptor == {[method |-> "AES-128", uri |-> "ok"],
                  [method |-> "AES-128", uri |-> "bad"],
                  [method |-> "NONE", uri |-> "empty"]}
Segment == [uri : {"ok", "bad"}, key : {None} \cup {Some(k) : k \in KeyDescriptor}]

SeqsUpTo(S, n) == UNION {[1..k -> S] : k \in 0..n}

MasterPlaylists == {[kind |-> "master", variants |-> v, segments |-> <<>>] :
                        v \in SeqsUpTo(Variant, MaxVariants)}
MediaPlaylists == {[kind |-> "media", variants |-> <<>>, segments |-> s] :
                        s \in SeqsUpTo(Segment, MaxChunks)}

\* Iterator::max_by_key: a fold that keeps the later element when the keys
\* compare equal, so of several maximal elements the last one is returned.
RECURSIVE MaxByKeyFrom(_, _, _)
MaxByKeyFrom(vs, best, j) ==
    IF j > Len(vs) THEN best
    ELSE IF vs[j].bandwidth >= vs[best].bandwidth
         THEN MaxByKeyFrom(vs, j, j + 1)
         ELSE MaxByKeyFrom(vs, best, j + 1)

\* The fold with a strict comparison: it would keep the first maximum.
RECURSIVE MaxByKeyFirstFrom(_, _, _)
MaxByKeyFirstFrom(vs, best, j) ==
    IF j > Len(vs) THEN best
    ELSE IF vs[j].bandwidth > vs[best].bandwidth
         THEN MaxByKeyFirstFrom(vs, j, j + 1)
         ELSE MaxByKeyFirstFrom(vs, best, j + 1)

max_by_key_first(vs) == IF Len(vs) = 0 THEN 0 ELSE MaxByKeyFirstFrom(vs, 1, 2)

max_by_key(vs) == IF Len(vs) = 0 THEN 0 ELSE MaxByKeyFrom(vs, 1, 2)

\* pl.segments.iter().find_map(|s| s.key.as_ref())
RECURSIVE FindMapKey(_, _)
FindMapKey(segs, j) ==
    IF j > Len(segs) THEN None
    ELSE IF IsSome(segs[j].key) THEN segs[j].key
         ELSE FindMapKey(segs, j + 1)

\* A search that keeps the last descriptor of the playlist.
RECURSIVE FindLastKey(_, _)
FindLastKey(segs, j) ==
    IF j = 0 THEN None
    ELSE IF IsSome(segs[j].key) THEN segs[j].key
         ELSE FindLastKey(segs, j - 1)
find_map_key_last(segs) == FindLastKey(segs, Len(segs))

find_map_key(segs) == FindMapKey(segs, 1)

\* ---------------------------------------------------------- downloader.rs
\* The failures of one attempt (try_download_segment), by what the
\* anyhow::Error holds: a reqwest::Error (no connection, a timeout, the
\* status error_for_status rejects, a body that cannot be read), the error
\* of decrypt_data, or the std::io::Error of File::create or write_all.
ReqwestErrors == {"connect", "timeout", "http503", "http429", "http404", "body"}
OtherErrors == {"decrypt", "io_create", "io_write"}
AttemptErrors == ReqwestErrors \cup OtherErrors

is_timeout(e) == e = "timeout"
is_connect(e) == e = "connect"
HasStatus(e) == e \in {"http503", "http429", "http404"}
StatusOf(e) == CASE e = "http503" -> 503
                 [] e = "http429" -> 429
                 [] e = "http404" -> 404
                 [] OTHER -> 0
is_server_error(code) == 500 <= code /\ code <= 599
TOO_MANY_REQUESTS == 429

\* A classification that takes every status error for retryable.
is_retryable_error_any_status(e) ==
    e \in ReqwestErrors /\ (is_timeout(e) \/ is_connect(e) \/ HasStatus(e))

is_retryable_error(e) ==
    IF e \in ReqwestErrors
    THEN IF is_timeout(e) \/ is_connect(e) THEN TRUE
         ELSE IF HasStatus(e)
              THEN IF is_server_error(StatusOf(e)) THEN TRUE
                   ELSE StatusOf(e) = TOO_MANY_REQUESTS
              ELSE FALSE
    ELSE FALSE

\* A chunk task: the future spawned for one entry of segments_info, with
\* the locals of download_segment (attempt, delay, last_error).
\*   st        queued | started | keyfetch | keybody | fetching | sleeping
\*             | ok | err
\*   attempt   the loop variable of download_segment (0 before it is called)
\*   log       the class of every finished attempt, in order
\*   keyreq    number of key requests sent
\*   keystatus status of the key response whose body is awaited (0: none)
\*   waits     the backoff sleeps taken, in order
\*   err       the cause of the task's Err
QueuedTask == [st |-> "queued", attempt |-> 0, log |-> <<>>, delay |-> 0,
               last_error |-> "none", keyreq |-> 0, keystatus |-> 0,
               waits |-> <<>>, err |-> "none"]

Terminal(t) == t.st \in {"ok", "err"}
InFlight(t) == t.st \in {"started", "keyfetch", "keybody", "fetching",
                          "sleeping"}
NChunks == Len(segments)
Chunks == 0..(NChunks - 1)

\* cleanup_segments has not run.
NoCleanup == [tried |-> {}, failed |-> {}, dir_ok |-> TRUE, result |-> "none"]

\* The key material code is not followed.
KeyIdle ==
    /\ kpc = "idle"
    /\ iv_attr = None
    /\ ki_iv = None
    /\ idx = 0
    /\ key_resp = <<>>
    /\ key_bytes = <<>>
    /\ iv_str = <<>>
    /\ iv_decoded = <<>>
    /\ iv_bytes = <<>>

\* decrypt_data is not followed.
CryptoIdle ==
    /\ cpc = "idle"
    /\ plaintext = <<>>
    /\ tamper = "none"
    /\ ckey = <<>>
    /\ civ = <<>>
    /\ encrypted_data = <<>>
    /\ decrypted = None

\* The two download_segment functions are not followed.
SegIdle ==
    /\ dpc = "idle"
    /\ responses = <<>>
    /\ lib_task = QueuedTask
    /\ bin_task = QueuedTask

Init ==
    /\ KeyIdle
    /\ CryptoIdle
    /\ SegIdle
    /\ pc = "start"
    /\ threads \in 0..MaxConc
    /\ no_merge = None
    /\ keep_segments = None
    /\ url = NoUrl
    /\ playlist = None
    /\ best_variant = 0
    /\ segments = <<>>
    /\ key_info = None
    /\ files \in [0..(MaxChunks - 1) -> {"absent", "complete"}]
    /\ tasks = <<>>
    /\ next = 0
    /\ inProgress = {}
    /\ pb_pos = 0
    /\ results = EmptyBag
    /\ merge_calls = 0
    /\ cleanup_calls = 0
    /\ merge_out = "none"
    /\ filelist = "absent"
    /\ listed = <<>>
    /\ output = "none"
    /\ cleanup_log = NoCleanup

dlvars == <<segments, key_info, files, tasks, next, inProgress, pb_pos, results>>
tailvars == <<merge_calls, cleanup_calls, merge_out, filelist, listed, output,
              cleanup_log>>
argvars == <<threads, no_merge, keep_segments>>

\* lib.rs run, up to the call of fetch_and_parse_playlist: building the
\* client, parsing args.url and creating the output directory can each fail.
RunStart ==
    /\ pc = "start"
    /\ \/ /\ pc' = "fetching"
          /\ url' = 1
       \/ /\ pc' = "run_err"
          /\ url' = NoUrl
    /\ UNCHANGED <<keyvars, cryptovars, segvars>>
    /\ UNCHANGED <<playlist, best_variant, dlvars, tailvars, argvars>>

\* fetch_and_parse_playlist, from the request to the parsed playlist: the
\* request, the status check, the body or the parser fails, or the parser
\* yields a master or a media playlist.
FetchPlaylist ==
    /\ pc = "fetching"
    /\ \/ /\ pc' = "run_err"
          /\ playlist' = None
          /\ url' = NoUrl
       \/ /\ \E pl \in MasterPlaylists \cup MediaPlaylists : playlist' = Some(pl)
          /\ pc' = "parsed"
          /\ url' = url
    /\ UNCHANGED <<keyvars, cryptovars, segvars>>
    /\ UNCHANGED <<best_variant, dlvars, tailvars, argvars>>

\* Playlist::MasterPlaylist: choose the variant, join its URI.
SelectVariant ==
    /\ pc = "parsed"
    /\ Unwrap(playlist).kind = "master"
    /\ LET vs == Unwrap(playlist).variants
           b == max_by_key(vs)
       IN  /\ best_variant' = b
           /\ IF b = 0 \/ vs[b].uri = BadUri
              THEN /\ pc' = "run_err"
                   /\ url' = NoUrl
              ELSE /\ pc' = "selected"
                   /\ url' = vs[b].uri
    /\ UNCHANGED <<keyvars, cryptovars, segvars>>
    /\ UNCHANGED <<playlist, dlvars, tailvars, argvars>>

\* Box::pin(fetch_and_parse_playlist(client, media_playlist_url)).await
Recurse ==
    /\ pc = "selected"
    /\ pc' = "fetching"
    /\ playlist' = None
    /\ best_variant' = 0
    /\ UNCHANGED <<keyvars, cryptovars, segvars>>
    /\ UNCHANGED <<url, dlvars, tailvars, argvars>>

\* Playlist::MediaPlaylist: return (pl, final_url, key_info).  Of pl the
\* program reads from here on the segment URIs and their number.
ReturnMedia ==
    /\ pc = "parsed"
    /\ Unwrap(playlist).kind = "media"
    /\ LET segs == Unwrap(playlist).segments
       IN  /\ segments' = [j \in 1..Len(segs) |-> segs[j].uri]
           /\ key_info' = find_map_key(segs)
    /\ pc' = "resolved"
    /\ playlist' = playlist
    /\ url' = NoUrl
    /\ UNCHANGED <<keyvars, cryptovars, segvars>>
    /\ UNCHANGED <<best_variant, files, tasks, next, inProgress, pb_pos,
                   results, tailvars, argvars>>

resolvevars == <<url, playlist, best_variant>>

\* Result<()> of one chunk.  The message of an Err is kept as its form:
\*   segment_url  "无法解析分段URL: <uri> ..."        (line 43)
\*   key_url      "无法解析密钥URL: <key uri> ..."    (line 78)
\*   key_fetch    the reqwest error of the key request (line 87)
\*   download     "Failed to download <segment_url>: <e>" (line 128)
OkResult == [ok |-> TRUE, cause |-> "none"]
ErrResult(c) == [ok |-> FALSE, cause |-> c]
ErrForm(err) == IF err \in {"key_url", "key_fetch"} THEN err ELSE "download"
\* The messages that hold the URI or URL of the segment: the one of line 43
\* ({segment_uri}) and the one of line 128 ({segment_url}); the message of
\* line 78 holds the key URI, the reqwest error of line 87 the key URL.
NamesSegment(cause) == cause \in {"segment_url", "download"}

\* download_segments lines 36-52: join every segment URI with base_url;
\* the first URI that does not join ends the call with a one-element Vec.
\* A check that looks at the first segment only.
AllUrisJoinFirstOnly == NChunks = 0 \/ segments[1] = "ok"

AllUrisJoin == \A j \in 1..NChunks : segments[j] = "ok"

DownloadStart ==
    /\ pc = "resolved"
    /\ IF ~AllUrisJoin
       THEN /\ results' = SetToBag({ErrResult("segment_url")})
            /\ tasks' = <<>>
            /\ pc' = "downloaded"
       ELSE /\ results' = EmptyBag
            /\ tasks' = [i \in Chunks |-> QueuedTask]
            /\ pc' = "downloading"
    /\ next' = 0
    /\ inProgress' = {}
    /\ playlist' = None
    /\ UNCHANGED <<keyvars, cryptovars, segvars>>
    /\ UNCHANGED <<segments, key_info, files, pb_pos, url, best_variant, tailvars,
                   argvars>>

\* buffer_unordered(max_concurrency): the next item of the stream is taken,
\* which spawns its task, while the queue holds fewer than max futures.
\* The bound taken one too large.
SlotFreeOffByOne == Cardinality(inProgress) <= threads

SlotFree == Cardinality(inProgress) < threads

Spawn ==
    /\ pc = "downloading"
    /\ next < NChunks
    /\ SlotFree
    /\ tasks' = [tasks EXCEPT ![next].st = "started"]
    /\ inProgress' = inProgress \cup {next}
    /\ next' = next + 1
    /\ UNCHANGED <<keyvars, cryptovars, segvars>>
    /\ UNCHANGED <<segments, key_info, files, pb_pos, results, pc, resolvevars,
                   tailvars, argvars>>

\* The task, lines 64-86: the artifact exists and the task is done, or the
\* key URL is resolved and the key request sent, or (no key descriptor)
\* download_segment starts its first attempt.
\* Line 50: output_dir.join(format!("index{}.ts", i)).  files is indexed by
\* the number k of the name index<k>.ts, and so is an output path.
\* Every chunk given the same name.
OutputPathShared(i) == 0

OutputPath(i) == i

FirstAttempt(t) == [t EXCEPT !.st = "fetching", !.attempt = 1,
                             !.delay = INITIAL_DELAY_MS]

\* A test that never finds the artifact (the wrong path is looked up).
ArtifactExistsNever(f) == FALSE

\* fs::metadata(&output_path).await.is_ok()
ArtifactExists(f) == f # "absent"

CheckExists(i) ==
    /\ pc = "downloading"
    /\ tasks[i].st = "started"
    /\ IF ArtifactExists(files[OutputPath(i)])
       THEN /\ tasks' = [tasks EXCEPT ![i].st = "ok"]
            /\ pb_pos' = pb_pos + 1
       ELSE /\ pb_pos' = pb_pos
            /\ IF IsSome(key_info)
               THEN IF Unwrap(key_info).uri = "bad"
                    THEN tasks' = [tasks EXCEPT ![i].st = "err",
                                                ![i].err = "key_url"]
                    ELSE tasks' = [tasks EXCEPT ![i].st = "keyfetch",
                                                ![i].keyreq = 1]
               ELSE tasks' = [tasks EXCEPT ![i] = FirstAttempt(@)]
    /\ UNCHANGED <<keyvars, cryptovars, segvars>>
    /\ UNCHANGED <<segments, key_info, files, next, inProgress, results,
                   pc, resolvevars, tailvars, argvars>>

\* Line 87, client.get(key_url).send().await?: the request fails (the task
\* ends with the reqwest error) or a response arrives, with any status.
KeyStatuses == {200, 404, 503}
KeyResponse(i) ==
    /\ pc = "downloading"
    /\ tasks[i].st = "keyfetch"
    /\ \/ tasks' = [tasks EXCEPT ![i].st = "err", ![i].err = "key_fetch"]
       \/ \E status \in KeyStatuses :
             tasks' = [tasks EXCEPT ![i].st = "keybody",
                                    ![i].keystatus = status]
    /\ UNCHANGED <<keyvars, cryptovars, segvars>>
    /\ UNCHANGED <<segments, key_info, files, next, inProgress, pb_pos, results,
                   pc, resolvevars, tailvars, argvars>>

\* Lines 87-111, .bytes().await?.to_vec(): the body of the response arrives,
\* whatever its status (line 87 has no error_for_status), or reading it
\* fails and the task ends with that error; key and IV are normalised,
\* download_segment starts.
KeyFetched(i) ==
    /\ pc = "downloading"
    /\ tasks[i].st = "keybody"
    /\ \E arrived \in BOOLEAN :
          tasks' = IF arrived
                   THEN [tasks EXCEPT ![i] = [FirstAttempt(@) EXCEPT
                                                !.keystatus = 0]]
                   ELSE [tasks EXCEPT ![i].st = "err", ![i].err = "key_fetch",
                                      ![i].keystatus = 0]
    /\ UNCHANGED <<keyvars, cryptovars, segvars>>
    /\ UNCHANGED <<segments, key_info, files, next, inProgress, pb_pos, results,
                   pc, resolvevars, tailvars, argvars>>

\* What one call of try_download_segment can end with.  decrypt_data is
\* called only with key material; the errors and the file are those of
\* lines 189-205.
AttemptOutcomes == {"ok"} \cup ReqwestErrors \cup {"io_create", "io_write"}
                    \cup (IF IsSome(key_info) THEN {"decrypt"} ELSE {})

\* Lines 196-200: the bytes to write are the output of decrypt_data when the
\* task has key and IV, else the body as fetched.
Written == IF IsSome(key_info) THEN "decrypted" ELSE "plain"

\* The file at the chunk's path after try_download_segment: File::create
\* succeeded for "ok" and "io_write", and write_all wrote all or some bytes.
\* "complete" is a file left by an earlier run.
FileAfter(f, o) == CASE o = "ok" -> Written
                     [] o = "io_write" -> "partial"
                     [] OTHER -> f

\* download_segment lines 158-178 on the outcome o of attempt t.attempt.
\* last_error is not read while the task sleeps, so the assignment of line
\* 168 is taken here, with the failure it stores.
\* The loop bound taken one too large.
ShouldRetryOffByOne(e, attempt) == is_retryable_error(e) /\ attempt <= MAX_RETRIES

ShouldRetry(e, attempt) == is_retryable_error(e) /\ attempt < MAX_RETRIES

AfterAttempt(t, o) ==
    IF o = "ok"
    THEN [t EXCEPT !.st = "ok", !.log = Append(@, "ok"),
                   !.last_error = "none", !.delay = 0]
    ELSE IF ShouldRetry(o, t.attempt)
    THEN [t EXCEPT !.st = "sleeping", !.log = Append(@, "retryable"),
                   !.last_error = o, !.waits = Append(@, t.delay)]
    ELSE IF is_retryable_error(o)
    THEN [t EXCEPT !.st = "err", !.log = Append(@, "retryable"),
                   !.err = t.last_error, !.last_error = "none", !.delay = 0]
    ELSE [t EXCEPT !.st = "err", !.log = Append(@, "terminal"),
                   !.err = o, !.last_error = "none", !.delay = 0]

Attempt(i) ==
    /\ pc = "downloading"
    /\ tasks[i].st = "fetching"
    /\ \E o \in AttemptOutcomes :
          /\ files' = [files EXCEPT ![OutputPath(i)] = FileAfter(@, o)]
          /\ tasks' = [tasks EXCEPT ![i] = AfterAttempt(@, o)]
          /\ pb_pos' = IF Terminal(AfterAttempt(tasks[i], o))
                       THEN pb_pos + 1 ELSE pb_pos
    /\ UNCHANGED <<keyvars, cryptovars, segvars>>
    /\ UNCHANGED <<segments, key_info, next, inProgress, results, pc, resolvevars,
                   tailvars, argvars>>

\* Line 167: delay.saturating_mul(2), in milliseconds; a Duration holds
\* far more than the 400 ms the delay reaches.
\* A backoff that keeps its delay.
NextDelayConstant(d) == d

NextDelay(d) == d * 2

\* Where the task goes on after a backoff: the loop of download_segment
\* calls try_download_segment again with the key and IV it was given.
\* A retry that resolves the key material again.
ResumeAtKey(t) == [t EXCEPT !.st = "keyfetch", !.keyreq = @ + 1]

Resume(t) == [t EXCEPT !.st = "fetching"]

\* Lines 166-167: the sleep ends, the delay doubles, the loop goes on.
Wake(i) ==
    /\ pc = "downloading"
    /\ tasks[i].st = "sleeping"
    /\ tasks' = [tasks EXCEPT ![i] = [Resume(@) EXCEPT
                                         !.delay = NextDelay(tasks[i].delay),
                                         !.attempt = tasks[i].attempt + 1]]
    /\ UNCHANGED <<keyvars, cryptovars, segvars>>
    /\ UNCHANGED <<segments, key_info, files, next, inProgress, pb_pos, results,
                   pc, resolvevars, tailvars, argvars>>

\* The JoinHandle of a finished task yields its Result, which leaves the
\* queue of buffer_unordered for the Vec that collect builds.
TaskResult(t) == IF t.st = "ok" THEN OkResult ELSE ErrResult(ErrForm(t.err))

\* A task whose JoinHandle has been consumed: its locals are gone, what is
\* left of it is its Result in the Vec.
Joined(t) == [QueuedTask EXCEPT !.st = t.st]

Collect(i) ==
    /\ pc = "downloading"
    /\ i \in inProgress
    /\ Terminal(tasks[i])
    /\ inProgress' = inProgress \ {i}
    /\ results' = results (+) SetToBag({TaskResult(tasks[i])})
    /\ tasks' = [tasks EXCEPT ![i] = Joined(@)]
    /\ UNCHANGED <<keyvars, cryptovars, segvars>>
    /\ UNCHANGED <<segments, key_info, files, next, pb_pos, pc, resolvevars,
                   tailvars, argvars>>

\* collect ends when buffer_unordered has seen the end of the stream (which
\* it polls only while a slot is free) and its queue is empty.
\* A collector that stops at the first Err, as try_collect would.
StreamDoneOnErr ==
    \/ next = NChunks /\ SlotFree /\ inProgress = {}
    \/ BagCardinality(results) > CopiesIn(OkResult, results)

StreamDone == next = NChunks /\ SlotFree /\ inProgress = {}

DownloadReturn ==
    /\ pc = "downloading"
    /\ StreamDone
    /\ pc' = "downloaded"
    /\ UNCHANGED <<keyvars, cryptovars, segvars>>
    /\ UNCHANGED <<dlvars, resolvevars, tailvars, argvars>>

\* ------------------------------------------------------------------ lib.rs
successful_downloads == CopiesIn(OkResult, results)
failed_downloads == BagCardinality(results) - successful_downloads
\* A run that goes on to merge whatever the count.
ShouldBailNever == FALSE

ShouldBail == failed_downloads > 0

\* run lines 44-59: count, bail when a chunk failed, else merge or skip.
AfterDownload ==
    /\ pc = "downloaded"
    /\ IF ShouldBail
       THEN /\ pc' = "run_err"
            /\ no_merge' = no_merge
       ELSE \E flag \in BOOLEAN :
               /\ no_merge' = Some(flag)
               /\ pc' = IF flag THEN "run_ok" ELSE "merging"
    /\ UNCHANGED <<keyvars, cryptovars, segvars>>
    /\ UNCHANGED <<dlvars, resolvevars, tailvars, threads, keep_segments>>

\* merge_segments: the list file cannot be created or written, the muxer
\* cannot be started (each an Err through `?`), or it ran and exited with
\* or without success.
MergeOutcomes == {"ok", "create_err", "write_err", "spawn_err", "exit_nonzero"}

\* A merge that does not look at the exit status.
MergeOkIgnoreStatus(o) == o \in {"ok", "exit_nonzero"}

\* merge_segments returns Ok(()) (lines 49-55).
MergeOk(o) == o = "ok"

\* filelist.txt after merge_segments: created at line 12, removed at line
\* 49, which is reached once the muxer has run, and whose failure is ignored.
FilelistAfter(f, o, removed) ==
    CASE o = "create_err" -> f
      [] o \in {"write_err", "spawn_err"} -> "present"
      [] OTHER -> IF removed THEN "absent" ELSE "remove_failed"

\* Lines 15-19: the line file 'index<i>.ts' for i in 0..segment_count, in
\* this order; segment_count is media_playlist.segments.len() (lib.rs 64).
FileListLines(n) == [j \in 1..n |-> j - 1]

\* The lines in the file when merge_segments returns: write_all or flush
\* failed after k of them.
ListedAfter(o, k) ==
    CASE o = "create_err" -> <<>>
      [] o = "write_err" -> SubSeq(FileListLines(NChunks), 1, k)
      [] OTHER -> FileListLines(NChunks)

\* Line 44: the muxer writes to output_path, which it resolves in its
\* working directory, segments_dir (line 30).  The entry of the merged
\* output in the segment directory, beside the entries 0, 1, ... of the
\* files index<k>.ts.
OutputEntry == -1

\* The kinds of args.output_video: a name ending in .ts or another name,
\* both inside the segment directory when relative, or an absolute path
\* outside of it ("none": no entry of the segment directory).
OutputKinds == {"ts", "other", "none"}

\* run line 73.
\* A run that cleans up whatever the flag says.
ShouldCleanupAlways(keep) == TRUE

ShouldCleanup(keep) == ~keep

\* run lines 60-73 with merge_segments.
MergeSegments ==
    /\ pc = "merging"
    /\ merge_calls' = merge_calls + 1
    /\ \E o \in MergeOutcomes, removed \in BOOLEAN, k \in 0..NChunks :
          /\ o # "write_err" => k = NChunks
          /\ o \notin {"ok", "exit_nonzero"} => removed
          /\ merge_out' = o
          /\ filelist' = FilelistAfter(filelist, o, removed)
          /\ listed' = ListedAfter(o, k)
          /\ IF MergeOk(o)
             THEN \E flag \in BOOLEAN, kind \in OutputKinds :
                     /\ output' = kind
                     /\ keep_segments' = Some(flag)
                     /\ pc' = IF ShouldCleanup(flag) THEN "cleanup" ELSE "run_ok"
             ELSE /\ pc' = "run_err"
                  /\ output' = output
                  /\ keep_segments' = keep_segments
    /\ UNCHANGED <<keyvars, cryptovars, segvars>>
    /\ UNCHANGED <<dlvars, resolvevars, cleanup_calls, cleanup_log, threads,
                   no_merge>>

\* cleanup_segments: the *.ts files of the directory.
TsFiles == {i \in DOMAIN files : files[i] # "absent"}
              \cup (IF output = "ts" THEN {OutputEntry} ELSE {})

\* Lines 62-71: every entry that read_dir yields and that ends in .ts is
\* given to remove_file; an Err of remove_file is pushed to errors and the
\* loop goes on.
RemoveTried(seen, failed) == seen

\* Lines 60, 62, 73-78: Err when the directory cannot be read or a file
\* could not be removed.
CleanupResult(dir_ok, failed) ==
    IF dir_ok /\ failed = {} THEN "ok" ELSE "err"

\* run lines 75-78: both arms of the match log; the run goes on to Ok(()).
\* A run that returns the Err of cleanup_segments.
AfterCleanupPropagate(result) == IF result = "ok" THEN "run_ok" ELSE "run_err"

AfterCleanup(result) == "run_ok"

\* run lines 73-79 with cleanup_segments.  read_dir or next_entry can fail
\* (the entries seen are then not all the files); of the files seen, some
\* cannot be removed.
CleanupSegments ==
    /\ pc = "cleanup"
    /\ cleanup_calls' = cleanup_calls + 1
    /\ \E dir_ok \in BOOLEAN :
       \E seen \in (IF dir_ok THEN {TsFiles} ELSE SUBSET TsFiles) :
       \E cannot \in SUBSET seen :
          LET tried == RemoveTried(seen, cannot)
              failed == tried \cap cannot
              result == CleanupResult(dir_ok, failed)
          IN  /\ files' = [i \in DOMAIN files |->
                              IF i \in tried \ failed THEN "absent" ELSE files[i]]
              /\ output' = IF OutputEntry \in tried \ failed
                            THEN "removed" ELSE output
              /\ cleanup_log' = [tried |-> tried, failed |-> failed,
                                 dir_ok |-> dir_ok, result |-> result]
              /\ pc' = AfterCleanup(result)
    /\ UNCHANGED <<keyvars, cryptovars, segvars>>
    /\ UNCHANGED <<segments, key_info, tasks, next, inProgress, pb_pos, results,
                   resolvevars, merge_calls, merge_out, filelist, listed,
                   argvars>>

Next ==
    \/ RunStart
    \/ FetchPlaylist
    \/ SelectVariant
    \/ Recurse
    \/ ReturnMedia
    \/ DownloadStart
    \/ Spawn
    \/ \E i \in Chunks : CheckExists(i)
    \/ \E i \in Chunks : KeyResponse(i)
    \/ \E i \in Chunks : KeyFetched(i)
    \/ \E i \in Chunks : Attempt(i)
    \/ \E i \in Chunks : Wake(i)
    \/ \E i \in Chunks : Collect(i)
    \/ DownloadReturn
    \/ AfterDownload
    \/ MergeSegments
    \/ CleanupSegments

Spec == Init /\ [][Next]_vars

\* Every request, sleep and file operation completes and the runtime polls
\* every future that can go on: the run does not stop while a step is possible.
FairSpec == Spec /\ WF_vars(Next)

\* ------------------------------------------------- key material, in bytes
\* A String is the sequence of its characters (all ASCII here), a Vec<u8>
\* a sequence of numbers 0..255.
HexChars == <<"0", "1", "2", "3", "4", "5", "6", "7",
              "8", "9", "a", "b", "c", "d", "e", "f">>

\* The byte of an ASCII character in UTF-8 (String::as_ref::<[u8]>).
AsciiOf(c) ==
    CASE c = "0" -> 48 [] c = "1" -> 49 [] c = "2" -> 50 [] c = "3" -> 51
      [] c = "4" -> 52 [] c = "5" -> 53 [] c = "6" -> 54 [] c = "7" -> 55
      [] c = "8" -> 56 [] c = "9" -> 57
      [] c = "a" -> 97 [] c = "b" -> 98 [] c = "c" -> 99 [] c = "d" -> 100
      [] c = "e" -> 101 [] c = "f" -> 102 [] c = "g" -> 103 [] c = "x" -> 120
      [] c = "A" -> 65 [] c = "B" -> 66 [] c = "C" -> 67 [] c = "D" -> 68
      [] c = "E" -> 69 [] c = "F" -> 70
as_bytes(str) == [j \in 1..Len(str) |-> AsciiOf(str[j])]

\* hex::encode: two lowercase digits per byte, high nibble first.
RECURSIVE hex_encode(_)
hex_encode(bytes) ==
    IF bytes = <<>> THEN <<>>
    ELSE <<HexChars[(Head(bytes) \div 16) + 1], HexChars[(Head(bytes) % 16) + 1]>>
            \o hex_encode(Tail(bytes))

\* hex::decode: the value of a digit of either case, -1 for any other char.
HexVal(c) ==
    CASE c = "0" -> 0 [] c = "1" -> 1 [] c = "2" -> 2 [] c = "3" -> 3
      [] c = "4" -> 4 [] c = "5" -> 5 [] c = "6" -> 6 [] c = "7" -> 7
      [] c = "8" -> 8 [] c = "9" -> 9
      [] c \in {"a", "A"} -> 10 [] c \in {"b", "B"} -> 11
      [] c \in {"c", "C"} -> 12 [] c \in {"d", "D"} -> 13
      [] c \in {"e", "E"} -> 14 [] c \in {"f", "F"} -> 15
      [] OTHER -> -1

\* hex::decode: Err(OddLength) for an odd length, Err(InvalidHexCharacter)
\* for a char that is no digit, else one byte per pair of digits.
hex_decode_ok(str) ==
    /\ Len(str) % 2 = 0
    /\ \A j \in 1..Len(str) : HexVal(str[j]) >= 0
hex_decode(str) ==
    [j \in 1..(Len(str) \div 2) |->
        HexVal(str[2 * j - 1]) * 16 + HexVal(str[2 * j])]

\* str::trim_start_matches("0x"): the prefix is removed as often as it is there.
RECURSIVE trim_start_matches_0x(_)
trim_start_matches_0x(str) ==
    IF Len(str) >= 2 /\ str[1] = "0" /\ str[2] = "x"
    THEN trim_start_matches_0x(SubSeq(str, 3, Len(str)))
    ELSE str

\* format!("{:032x}", i): the digits of i in base 16, zero-padded to width.
RECURSIVE format_x(_, _)
format_x(i, width) ==
    IF width = 0 THEN <<>>
    ELSE Append(format_x(i \div 16, width - 1), HexChars[(i % 16) + 1])
\* format!("0x{:x}", i): the digits without the zero padding.
RECURSIVE format_x_unpadded(_)
format_x_unpadded(i) ==
    IF i < 16 THEN <<HexChars[i + 1]>>
    ELSE Append(format_x_unpadded(i \div 16), HexChars[(i % 16) + 1])
DefaultIvStrUnpadded(i) == <<"0", "x">> \o format_x_unpadded(i)

DefaultIvStr(i) == <<"0", "x">> \o format_x(i, 32)

\* Lines 89-94 and 102-107: Vec::truncate(16) keeps the leading 16 bytes,
\* Vec::resize(16, 0) appends zero bytes up to 16.
\* A cut that keeps the trailing 16 bytes.
Normalize16KeepTail(bytes) ==
    IF Len(bytes) > 16 THEN SubSeq(bytes, Len(bytes) - 15, Len(bytes))
    ELSE IF Len(bytes) < 16
         THEN bytes \o [j \in 1..(16 - Len(bytes)) |-> 0]
         ELSE bytes

Normalize16(bytes) ==
    IF Len(bytes) > 16 THEN SubSeq(bytes, 1, 16)
    ELSE IF Len(bytes) < 16
         THEN bytes \o [j \in 1..(16 - Len(bytes)) |-> 0]
         ELSE bytes

\* The IV attributes a key tag is given here: an optional 0x, up to
\* MaxIvDigits hexadecimal digits, and possibly a character that is no digit.
IvDigits(n) == [j \in 1..n |-> HexChars[((j * 7) % 16) + 1]]
IvAttrs == {pre \o IvDigits(n) \o suf :
                pre \in {<<>>, <<"0", "x">>},
                n \in 0..MaxIvDigits,
                suf \in {<<>>, <<"g">>}}
\* The key responses: every length up to MaxKeyLen, all bytes different.
KeyResponses == {[j \in 1..n |-> (j * 37) % 256] : n \in 0..MaxKeyLen}
\* The chunk indices; the index is read only for a tag without IV.
Indices == (0..MaxIndex) \cup {255, 256, 65536}

\* No run: the key material code is followed on its own.
MainOff ==
    /\ pc = "off"
    /\ threads = 0
    /\ no_merge = None
    /\ keep_segments = None
    /\ url = NoUrl
    /\ playlist = None
    /\ best_variant = 0
    /\ segments = <<>>
    /\ key_info = None
    /\ files = [i \in 0..(MaxChunks - 1) |-> "absent"]
    /\ tasks = <<>>
    /\ next = 0
    /\ inProgress = {}
    /\ pb_pos = 0
    /\ results = EmptyBag
    /\ merge_calls = 0
    /\ cleanup_calls = 0
    /\ merge_out = "none"
    /\ filelist = "absent"
    /\ listed = <<>>
    /\ output = "none"
    /\ cleanup_log = NoCleanup

KeyInit ==
    /\ MainOff
    /\ CryptoIdle
    /\ SegIdle
    /\ kpc = "tag"
    /\ \/ iv_attr = None /\ idx \in Indices
       \/ iv_attr \in {Some(a) : a \in IvAttrs} /\ idx \in {0, 1}
    /\ key_resp \in KeyResponses
    /\ ki_iv = None
    /\ key_bytes = <<>>
    /\ iv_str = <<>>
    /\ iv_decoded = <<>>
    /\ iv_bytes = <<>>

\* playlist.rs line 48: iv: k.iv.as_ref().map(|i| hex::encode(i))
KeyInfoIv ==
    /\ kpc = "tag"
    /\ ki_iv' = IF IsSome(iv_attr)
                THEN Some(hex_encode(as_bytes(Unwrap(iv_attr))))
                ELSE None
    /\ kpc' = "key_info"
    /\ UNCHANGED <<cryptovars, segvars>>
    /\ UNCHANGED <<mainvars, iv_attr, idx, key_resp, key_bytes, iv_str,
                   iv_decoded, iv_bytes>>

\* Line 87: the body of the key response, as a Vec.
KeyBody ==
    /\ kpc = "key_info"
    /\ key_bytes' = key_resp
    /\ kpc' = "key_body"
    /\ UNCHANGED <<cryptovars, segvars>>
    /\ UNCHANGED <<mainvars, iv_attr, ki_iv, idx, key_resp, iv_str, iv_decoded,
                   iv_bytes>>

\* Lines 89-94.
KeyNormalize ==
    /\ kpc = "key_body"
    /\ key_bytes' = Normalize16(key_bytes)
    /\ kpc' = "key_ready"
    /\ UNCHANGED <<cryptovars, segvars>>
    /\ UNCHANGED <<mainvars, iv_attr, ki_iv, idx, key_resp, iv_str, iv_decoded,
                   iv_bytes>>

\* Lines 95-99: the IV string of the KeyInfo, or the one made of the chunk
\* index; hex::decode of it without its 0x, whose Err ends the task.
IvStrOf(iv, i) == IF IsSome(iv) THEN Unwrap(iv) ELSE DefaultIvStr(i)

IvDecode ==
    /\ kpc = "key_ready"
    /\ iv_str' = IvStrOf(ki_iv, idx)
    /\ LET digits == trim_start_matches_0x(iv_str')
       IN  IF hex_decode_ok(digits)
           THEN /\ iv_decoded' = hex_decode(digits)
                /\ iv_bytes' = hex_decode(digits)
                /\ kpc' = "iv_decoded"
           ELSE /\ iv_decoded' = <<>>
                /\ iv_bytes' = <<>>
                /\ kpc' = "iv_err"
    /\ UNCHANGED <<cryptovars, segvars>>
    /\ UNCHANGED <<mainvars, iv_attr, ki_iv, idx, key_resp, key_bytes>>

\* Lines 102-108: (Some(key_bytes), Some(iv_bytes))
IvNormalize ==
    /\ kpc = "iv_decoded"
    /\ iv_bytes' = Normalize16(iv_bytes)
    /\ kpc' = "ready"
    /\ UNCHANGED <<cryptovars, segvars>>
    /\ UNCHANGED <<mainvars, iv_attr, ki_iv, idx, key_resp, key_bytes, iv_str,
                   iv_decoded>>

KeyNext ==
    \/ KeyInfoIv
    \/ KeyBody
    \/ KeyNormalize
    \/ IvDecode
    \/ IvNormalize

KeySpec == KeyInit /\ [][KeyNext]_vars

\* --------------------------------------------------------------- crypto.rs
\* Bytes are 0..255.  The exclusive or of two bytes, bit by bit.
RECURSIVE Xor(_, _)
Xor(a, b) ==
    IF a = 0 THEN b
    ELSE IF b = 0 THEN a
    ELSE 2 * Xor(a \div 2, b \div 2) + ((a + b) % 2)

\* The block function of the cipher under a key, and its inverse.  AES-128
\* itself is not spelled out: a keyed permutation of the 16-byte blocks
\* stands for it, of which nothing but its being invertible is used.
BlockEncrypt(key, block) ==
    [j \in 1..BLOCK_SIZE |-> (block[j] + key[j] + j) % 256]
BlockDecrypt(key, block) ==
    [j \in 1..BLOCK_SIZE |-> (block[j] + 512 - key[j] - j) % 256]

BlockOf(data, n) == SubSeq(data, (n - 1) * BLOCK_SIZE + 1, n * BLOCK_SIZE)
XorBlock(a, b) == [j \in 1..BLOCK_SIZE |-> Xor(a[j], b[j])]

\* cbc::Decryptor: block n of the output is the inverse block function of
\* block n of the input, xored with block n - 1 of the input (the IV for
\* the first block).
RECURSIVE CbcDecrypt(_, _, _, _)
CbcDecrypt(key, prev, data, n) ==
    IF n > Len(data) \div BLOCK_SIZE THEN <<>>
    ELSE XorBlock(BlockDecrypt(key, BlockOf(data, n)), prev)
            \o CbcDecrypt(key, BlockOf(data, n), data, n + 1)

\* Result<Vec<u8>>
OkBytes(b) == [ok |-> TRUE, bytes |-> b]
ErrNoBytes == [ok |-> FALSE, bytes |-> <<>>]

\* block_padding::Pkcs7 on the decrypted blocks: the last byte n is the
\* length of the padding, 1..16, and the last n bytes are all n; UnpadError
\* otherwise, and for no block at all.
\* NoPadding: the blocks are returned as they are.
UnpadNoPadding(buf) == OkBytes(buf)

UnpadPkcs7(buf) ==
    IF buf = <<>> THEN ErrNoBytes
    ELSE LET n == buf[Len(buf)]
         IN  IF n = 0 \/ n > BLOCK_SIZE THEN ErrNoBytes
             ELSE IF \E j \in (Len(buf) - n + 1)..Len(buf) : buf[j] # n
                  THEN ErrNoBytes
                  ELSE OkBytes(SubSeq(buf, 1, Len(buf) - n))

\* decrypt_data: decrypt_padded_mut fails when the input is not whole
\* blocks, else decrypts the blocks and removes the padding; map_err and `?`
\* return its error, else Ok(decrypted_slice.to_vec()).
decrypt_data(data, key, iv) ==
    IF Len(data) % BLOCK_SIZE # 0 THEN ErrNoBytes
    ELSE UnpadPkcs7(CbcDecrypt(key, iv, data, 1))

\* The other side: PKCS#7 padding and CBC encryption of a plaintext, and
\* what can happen to the ciphertext before it is decrypted.
Pkcs7Pad(data) ==
    LET n == BLOCK_SIZE - (Len(data) % BLOCK_SIZE)
    IN  data \o [j \in 1..n |-> n]
RECURSIVE CbcEncrypt(_, _, _, _)
CbcEncrypt(key, prev, data, n) ==
    IF n > Len(data) \div BLOCK_SIZE THEN <<>>
    ELSE LET c == BlockEncrypt(key, XorBlock(BlockOf(data, n), prev))
         IN  c \o CbcEncrypt(key, c, data, n + 1)
Encrypted(p, key, iv) == CbcEncrypt(key, iv, Pkcs7Pad(p), 1)
Tampers == {"none", "cut_byte", "cut_block", "last_byte"}
Tampered(c, how) ==
    CASE how = "none" -> c
      [] how = "cut_byte" -> SubSeq(c, 1, Len(c) - 1)
      [] how = "cut_block" -> SubSeq(c, 1, Len(c) - BLOCK_SIZE)
      [] how = "last_byte" -> [c EXCEPT ![Len(c)] = (@ + 1) % 256]
Plaintexts == {[j \in 1..n |-> (j * 5) % 17] : n \in 0..MaxPlainLen}
Keys16 == {[j \in 1..BLOCK_SIZE |-> (j * m) % 256] : m \in {3, 29}}
Ivs16 == {[j \in 1..BLOCK_SIZE |-> (j * m + 1) % 256] : m \in {7, 131}}

CryptoInit ==
    /\ MainOff
    /\ KeyIdle
    /\ SegIdle
    /\ cpc = "call"
    /\ plaintext \in Plaintexts
    /\ tamper \in Tampers
    /\ ckey \in Keys16
    /\ civ \in Ivs16
    /\ encrypted_data = Tampered(Encrypted(plaintext, ckey, civ), tamper)
    /\ decrypted = None

\* try_download_segment line 197: decrypt_data(&encrypted_data, key, iv)
Decrypt ==
    /\ cpc = "call"
    /\ decrypted' = Some(decrypt_data(encrypted_data, ckey, civ))
    /\ cpc' = "done"
    /\ UNCHANGED <<mainvars, keyvars, segvars, plaintext, tamper, ckey, civ,
                   encrypted_data>>

CryptoNext == Decrypt

CryptoSpec == CryptoInit /\ [][CryptoNext]_vars

\* ------------------------------------- main.rs beside downloader.rs
\* What a request for the chunk can end with: a body with status 200, or
\* one of the errors of reqwest (lines 189-194 of downloader.rs, lines
\* 248-253 of main.rs: send, error_for_status, bytes).
Responses == {"ok"} \cup ReqwestErrors
ResponseSeqs == [1..MaxResponses -> Responses]

SegInit ==
    /\ MainOff
    /\ KeyIdle
    /\ CryptoIdle
    /\ dpc = "run"
    /\ responses \in ResponseSeqs
    /\ lib_task = FirstAttempt(QueuedTask)
    /\ bin_task = FirstAttempt(QueuedTask)

\* downloader.rs download_segment: attempt k gets the k-th response.
LibAttempt ==
    /\ dpc = "run"
    /\ lib_task.st = "fetching"
    /\ lib_task.attempt <= Len(responses)
    /\ lib_task' = AfterAttempt(lib_task, responses[lib_task.attempt])
    /\ UNCHANGED <<mainvars, keyvars, cryptovars, dpc, responses, bin_task>>

LibWake ==
    /\ dpc = "run"
    /\ lib_task.st = "sleeping"
    /\ lib_task' = [Resume(lib_task) EXCEPT
                       !.delay = NextDelay(lib_task.delay),
                       !.attempt = lib_task.attempt + 1]
    /\ UNCHANGED <<mainvars, keyvars, cryptovars, dpc, responses, bin_task>>

\* main.rs download_segment, lines 247-272: one request; any error of send,
\* error_for_status, bytes, of the decryption or of the file leaves the
\* function through `?`.  There is no loop and no is_retryable_error.
BinAfterAttempt(t, o) ==
    IF o = "ok"
    THEN [t EXCEPT !.st = "ok", !.log = Append(@, "ok"), !.delay = 0]
    ELSE [t EXCEPT !.st = "err", !.err = o, !.delay = 0,
                   !.log = Append(@, IF is_retryable_error(o)
                                     THEN "retryable" ELSE "terminal")]

BinAttempt ==
    /\ dpc = "run"
    /\ bin_task.st = "fetching"
    /\ bin_task' = BinAfterAttempt(bin_task, responses[bin_task.attempt])
    /\ UNCHANGED <<mainvars, keyvars, cryptovars, dpc, responses, lib_task>>

SegNext == LibAttempt \/ LibWake \/ BinAttempt

SegSpec == SegInit /\ [][SegNext]_vars

\* ------------------------------------------------------------- properties
TaskIds == DOMAIN tasks
\* The tasks whose record still holds the locals of the task: those not yet
\* taken out of the queue of buffer_unordered.
Live(i) == tasks[i].st = "queued" \/ i \in inProgress
InFlightCount == Cardinality({i \in TaskIds : InFlight(tasks[i])})
Last(q) == q[Len(q)]
AllRetryable(log) == \A j \in 1..Len(log) : log[j] = "retryable"

\* C1: at every instant the number of chunk tasks started and not yet ended
\* (checking the file, fetching the key, fetching the chunk, sleeping in a
\* backoff) is at most args.threads, and a queued task is started only in a
\* state where fewer than args.threads tasks are in flight.
C1_ConcurrencyCap ==
    /\ [](InFlightCount <= threads)
    /\ [][\A i \in TaskIds :
            (tasks[i].st = "queued" /\ tasks'[i].st = "started")
                => InFlightCount < threads]_vars

\* The cap is reached while a chunk still waits in the stream.
C1_Witness ==
    /\ pc = "downloading"
    /\ threads >= 1
    /\ InFlightCount = threads
    /\ \E i \in TaskIds : tasks[i].st = "queued"

\* C2: a chunk is attempted at most 3 times; when every attempt failed
\* retryably the task ends only after exactly 3 attempts, as a failure; an Ok
\* attempt is the last one and the task is then Ok.
C2_RetryBound ==
    \A i \in TaskIds :
        LET t == tasks[i] IN
        /\ t.attempt <= 3
        /\ Len(t.log) <= 3
        /\ (Terminal(t) /\ t.log # <<>> /\ AllRetryable(t.log))
              => (t.st = "err" /\ Len(t.log) = 3 /\ t.attempt = 3)
        /\ \A j \in 1..Len(t.log) :
              t.log[j] = "ok" => (j = Len(t.log) /\ t.st = "ok")
        /\ (t.st = "ok" /\ t.log # <<>>) => Last(t.log) = "ok"

\* One chunk failed three times retryably and is reported failed, another
\* failed twice retryably and succeeded on its third attempt.
C2_Witness ==
    /\ \E i \in TaskIds :
          tasks[i].st = "err" /\ tasks[i].log = <<"retryable", "retryable", "retryable">>
    /\ \E i \in TaskIds :
          tasks[i].st = "ok" /\ tasks[i].log = <<"retryable", "retryable", "ok">>

RetryableFailures == {"connect", "timeout", "http503", "http429"}
OtherFailures == AttemptErrors \ RetryableFailures

\* C3: a task waits for, or makes, a further attempt only after a failure
\* that is a connection failure, a timeout, a 5xx or a 429; a task ended by
\* any other failure (404, an unreadable body, decrypt, file I/O) ended with
\* that attempt and slept only between its attempts, never after the failing
\* one, so a first attempt failing that way is the only one.
C3_RetryOnlyRetryable ==
    \A i \in TaskIds :
        LET t == tasks[i] IN
        /\ (t.st = "sleeping" \/ (t.st = "fetching" /\ t.attempt > 1))
              => t.last_error \in RetryableFailures
        /\ (t.st = "err" /\ t.err \in OtherFailures)
              => /\ Last(t.log) = "terminal"
                 /\ t.attempt = Len(t.log)
                 /\ Len(t.waits) = t.attempt - 1
                 /\ \A j \in 1..(Len(t.log) - 1) : t.log[j] = "retryable"

\* A chunk answered 404 on its first attempt: failed after one attempt and
\* no wait.
C3_Witness ==
    \E i \in TaskIds :
        /\ tasks[i].st = "err"
        /\ tasks[i].err = "http404"
        /\ tasks[i].attempt = 1
        /\ tasks[i].waits = <<>>

\* C4: the step of a started task whose artifact is on disk ends the task
\* Ok, and the task has sent no key request and made no fetch attempt, with
\* or without a key descriptor.
C4_ExistingArtifactSkipped ==
    [][\A i \in TaskIds :
          (tasks[i].st = "started" /\ files[i] # "absent" /\ tasks'[i] # tasks[i])
              => /\ tasks'[i].st = "ok"
                 /\ tasks'[i].keyreq = 0
                 /\ tasks'[i].attempt = 0
                 /\ tasks'[i].log = <<>>
                 /\ files'[i] = files[i]]_vars

\* A task ended Ok without any request although the run has a key
\* descriptor whose URL resolves.
C4_Witness ==
    /\ IsSome(key_info)
    /\ Unwrap(key_info).uri = "ok"
    /\ \E i \in inProgress :
          /\ tasks[i].st = "ok"
          /\ tasks[i].keyreq = 0
          /\ tasks[i].attempt = 0
          /\ files[i] = "complete"

SomeUriBad == \E j \in 1..Len(segments) : segments[j] = "bad"

Returned == pc \in {"downloaded", "merging", "cleanup", "run_ok"}
               \/ (pc = "run_err" /\ tasks # <<>>)
NumTasks(status) == Cardinality({i \in TaskIds : tasks[i].st = status})

\* C5: when every segment URI joined, download_segments returns one Result
\* per chunk: every task has ended, none was skipped, and the counts run
\* takes from the Vec are the numbers of tasks that ended Ok and Err; with
\* at least one slot the call is never stuck before it returns, whichever
\* tasks fail.
AllOutcomes ==
    /\ TaskIds = Chunks
    /\ \A i \in TaskIds : Terminal(tasks[i])
    /\ BagCardinality(results) = NChunks
    /\ successful_downloads = NumTasks("ok")
    /\ failed_downloads = NumTasks("err")
    /\ successful_downloads + failed_downloads = NChunks

C5_AllOutcomes ==
    /\ (Returned /\ ~SomeUriBad) => AllOutcomes
    /\ (pc = "downloading" /\ threads >= 1) => ENABLED Next

\* Two chunks, one failed and one succeeded: 1 succeeded / 1 failed.
C5_Witness ==
    /\ pc = "downloaded"
    /\ NChunks = 2
    /\ failed_downloads = 1
    /\ successful_downloads = 1

\* C6: merge_segments is called only when every chunk task has ended and no
\* Result is an Err; once download_segments has returned an Err the run
\* can only end as a failure.
C6_MergeGate ==
    /\ (pc \in {"merging", "cleanup"} \/ merge_calls > 0)
          => /\ failed_downloads = 0
             /\ BagCardinality(results) = NChunks
             /\ \A i \in TaskIds : Terminal(tasks[i])
    /\ failed_downloads > 0
          => /\ pc \in {"downloading", "downloaded", "run_err"}
             /\ merge_calls = 0
             /\ cleanup_calls = 0

\* A run ended as a failure with one of its two chunks failed and the muxer
\* never called.
C6_Witness ==
    /\ pc = "run_err"
    /\ NChunks = 2
    /\ BagCardinality(results) = 2
    /\ failed_downloads = 1
    /\ merge_calls = 0

\* C7: a chunk task that ended in failure leaves no file at its path (a
\* task whose file was there before it started ends Ok).
C7_NoFileAfterFailure ==
    \A i \in TaskIds : tasks[i].st = "err" => files[i] = "absent"

\* C8: when a segment URI does not join, no chunk task exists at any time,
\* nothing is fetched or written, the Vec is the single Err of line 43, and
\* the run ends as a failure without a merge.
C8_FailFastOnBadUri ==
    SomeUriBad
        => /\ tasks = <<>>
           /\ inProgress = {}
           /\ pb_pos = 0
           /\ \A i \in DOMAIN files : files[i] # "partial"
           /\ pc \in {"resolved", "downloaded", "run_err"}
           /\ pc # "resolved" => results = SetToBag({ErrResult("segment_url")})
           /\ merge_calls = 0

\* The run failed on a playlist whose second segment does not join: the
\* first chunk, whose URI joins, was not started either.
C8_Witness ==
    /\ pc = "run_err"
    /\ segments = <<"ok", "bad">>
    /\ tasks = <<>>
    /\ files[0] = "absent"

Variants == IF IsSome(playlist) THEN Unwrap(playlist).variants ELSE <<>>
Chosen == best_variant # 0
MaxBandwidthChosen ==
    \A j \in 1..Len(Variants) : Variants[j].bandwidth <= Variants[best_variant].bandwidth
Tied(j) == Variants[j].bandwidth = Variants[best_variant].bandwidth

\* C9 as claimed: the chosen variant has the maximal bandwidth and is the
\* first of the list with that bandwidth.
C9_FirstMaxVariant ==
    Chosen => /\ MaxBandwidthChosen
              /\ \A j \in 1..Len(Variants) : Tied(j) => best_variant <= j

\* C9 as amended: the chosen variant has the maximal bandwidth and is the
\* last of the list with that bandwidth.
C9_LastMaxVariant ==
    Chosen => /\ MaxBandwidthChosen
              /\ \A j \in 1..Len(Variants) : Tied(j) => j <= best_variant

\* Two variants of the same bandwidth: the second one is followed.
C9_Witness ==
    /\ pc = "selected"
    /\ Len(Variants) = 2
    /\ Variants[1].bandwidth = Variants[2].bandwidth
    /\ best_variant = 2

\* C10: fetch_and_parse_playlist eventually returns a media playlist or
\* fails, whatever the playlists refer to.
Resolving == pc \in {"fetching", "parsed", "selected"}
C10_ResolutionTerminates == [](Resolving => <>(~Resolving))

\* C14: the KeyInfo of the run is the key tag of the first segment of the
\* playlist that has one (None when no segment has one).  With it, every
\* task that fetched its chunk had sent one key request and wrote the
\* output of decrypt_data; without it no task sends a key request and every
\* file written is the body as fetched.
FirstDescriptor(segs, k) ==
    IF \E j \in 1..Len(segs) : IsSome(segs[j].key)
    THEN \E j \in 1..Len(segs) :
            /\ IsSome(segs[j].key)
            /\ \A m \in 1..(j - 1) : segs[m].key = None
            /\ k = segs[j].key
    ELSE k = None
Fetched(i) == Live(i) /\ tasks[i].attempt >= 1
C14_FirstDescriptorForAll ==
    /\ pc = "resolved" => FirstDescriptor(Unwrap(playlist).segments, key_info)
    /\ IsSome(key_info)
          => /\ \A i \in DOMAIN files : files[i] # "plain"
             /\ \A i \in TaskIds :
                   Fetched(i) => /\ tasks[i].keyreq = 1
                                 /\ tasks[i].st = "ok" => files[i] = "decrypted"
    /\ key_info = None
          => /\ \A i \in DOMAIN files : files[i] # "decrypted"
             /\ \A i \in TaskIds :
                   /\ Live(i) => tasks[i].keyreq = 0
                   /\ tasks[i].st \notin {"keyfetch", "keybody"}
                   /\ (Fetched(i) /\ tasks[i].st = "ok") => files[i] = "plain"

\* The first segment has no key tag, the second has one: it is the run's.
C14_Witness ==
    /\ pc = "resolved"
    /\ Len(Unwrap(playlist).segments) = 2
    /\ Unwrap(playlist).segments[1].key = None
    /\ IsSome(Unwrap(playlist).segments[2].key)
    /\ key_info = Unwrap(playlist).segments[2].key

\* C15: the waits of a task are 100 ms, then twice the wait before; there
\* is one wait between two consecutive attempts (a task sleeps after as many
\* waits as attempts, fetches after one fewer) and none after the last
\* attempt, be it the third or one that failed terminally or succeeded.
C15_BackoffDoubling ==
    \A i \in TaskIds :
        Live(i) =>
            LET t == tasks[i]
                w == t.waits
            IN  /\ Len(w) >= 1 => w[1] = 100
                /\ \A k \in 1..(Len(w) - 1) : w[k + 1] = 2 * w[k] /\ w[k] <= w[k + 1]
                /\ t.st = "sleeping" => Len(w) = t.attempt /\ t.attempt < 3
                /\ t.st = "fetching" => Len(w) = t.attempt - 1
                /\ (Terminal(t) /\ t.attempt >= 1)
                      => /\ Len(w) = t.attempt - 1
                         /\ Len(w) = Len(t.log) - 1

\* Three retryable failures: waits of 100 ms and 200 ms, none after the third.
C15_Witness ==
    \E i \in TaskIds :
        /\ Live(i)
        /\ tasks[i].st = "err"
        /\ tasks[i].attempt = 3
        /\ tasks[i].waits = <<100, 200>>

\* C16: every Err that download_segments returns, and run prints, says
\* which segment it is about.
C16_FailureNamesChunk ==
    \A r \in BagToSet(results) : ~r.ok => NamesSegment(r.cause)

\* C18: when merge_segments returns an Err (list file, muxer start or exit
\* status) the run ends as a failure, cleanup_segments is not called, the
\* failing merge step leaves every file as it was, and every chunk's file
\* is still there.
MergeFailed == merge_out \notin {"none", "ok"}
C18_MergeFailureKeepsArtifacts ==
    /\ [](MergeFailed
            => /\ pc = "run_err"
               /\ cleanup_calls = 0
               /\ cleanup_log = NoCleanup
               /\ \A i \in Chunks : files[i] # "absent")
    /\ [][(pc = "merging" /\ pc' = "run_err") => files' = files]_vars

\* The muxer exited with a failure status on a run of two chunks.
C18_Witness ==
    /\ pc = "run_err"
    /\ merge_out = "exit_nonzero"
    /\ NChunks = 2
    /\ files[0] # "absent" /\ files[1] # "absent"
    /\ cleanup_calls = 0

\* C19: once cleanup_segments has been called the run ends Ok whatever it
\* returned; when the directory could be read it tried to remove every
\* file, also after a removal failed: the files still there are those whose
\* removal failed.
C19_CleanupFailureIgnored ==
    cleanup_log.result # "none"
        => /\ pc = "run_ok"
           /\ cleanup_log.result = "err"
                 <=> (~cleanup_log.dir_ok \/ cleanup_log.failed # {})
           /\ cleanup_log.dir_ok
                 => /\ Chunks \subseteq cleanup_log.tried
                    /\ \A i \in DOMAIN files :
                          files[i] # "absent" <=> i \in cleanup_log.failed

\* The first file could not be removed: the second one was removed all the
\* same and the run ended Ok.
C19_Witness ==
    /\ pc = "run_ok"
    /\ cleanup_log.result = "err"
    /\ cleanup_log.dir_ok
    /\ cleanup_log.failed = {0}
    /\ cleanup_log.tried = {0, 1}
    /\ files[0] # "absent"
    /\ files[1] = "absent"

\* C21: with a key descriptor, every chunk task whose artifact does not
\* exist sends exactly one key request, while it holds its own slot of
\* buffer_unordered and before its first chunk fetch attempt; a retry sends
\* no further key request, and no key request is sent for a task that has
\* not started or that found its artifact.
KeyStage(t) == t.st \in {"keyfetch", "keybody"}
C21_KeyFetchedOncePerTask ==
    /\ [](
          /\ \A i \in TaskIds : Live(i) =>
                /\ tasks[i].keyreq <= 1
                /\ tasks[i].st \in {"queued", "started"} => tasks[i].keyreq = 0
                /\ KeyStage(tasks[i]) =>
                      /\ i \in inProgress
                      /\ tasks[i].keyreq = 1
                      /\ tasks[i].attempt = 0
                /\ (tasks[i].attempt >= 1 /\ IsSome(key_info)) => tasks[i].keyreq = 1
                /\ tasks[i].keyreq = 1 => IsSome(key_info) /\ i \in inProgress
                /\ tasks[i].keystatus # 0 => tasks[i].st = "keybody")
    /\ [][\A i \in TaskIds :
            (tasks[i].attempt >= 1 /\ InFlight(tasks[i]))
               => tasks'[i].keyreq = tasks[i].keyreq]_vars

\* Two tasks, each in its own slot, have each sent their one key request, and
\* one of them is in its third attempt.
C21_Witness ==
    /\ pc = "downloading"
    /\ IsSome(key_info)
    /\ \E i, j \in inProgress :
          /\ i # j
          /\ tasks[i].keyreq = 1 /\ tasks[i].attempt = MAX_RETRIES
          /\ tasks[j].keyreq = 1

\* C22: a chunk task writes to no file but index<i>.ts of its own index i,
\* in whatever order the tasks end; the paths of the n chunks are pairwise
\* distinct; a chunk that ended with success has its bytes at index<i>.ts;
\* and the list that merge_segments wrote in full names index0.ts ..
\* index<n-1>.ts, the paths of the chunks, in ascending order.
ListWritten == merge_out \in {"ok", "exit_nonzero", "spawn_err"}
C22_PathsByIndex ==
    /\ [](
          /\ \A i, j \in Chunks : i # j => OutputPath(i) # OutputPath(j)
          /\ \A i \in TaskIds :
                (Live(i) /\ tasks[i].st = "ok" /\ tasks[i].attempt >= 1)
                   => files[i] = Written
          /\ ListWritten =>
                /\ Len(listed) = NChunks
                /\ \A i \in Chunks : listed[i + 1] = OutputPath(i)
                /\ \A j \in 1..(Len(listed) - 1) : listed[j] < listed[j + 1])
    /\ [][\A i \in TaskIds :
            (pc = "downloading" /\ tasks'[i] # tasks[i])
               => \A k \in DOMAIN files : k # i => files'[k] = files[k]]_vars

\* Both chunks were written by this run, and the list names both in order.
C22_Witness ==
    /\ merge_out = "ok"
    /\ NChunks = 2
    /\ listed = <<0, 1>>
    /\ \A i \in Chunks : files[i] = Written

\* C23: when merge_segments has created filelist.txt and returns after muxer
\* success, after a non-zero exit of the muxer, or because the muxer could
\* not be started, the file is gone, or remove_file was called on it and
\* failed.
C23_FileListRemoved ==
    merge_out \in {"ok", "exit_nonzero", "spawn_err"}
       => filelist \in {"absent", "remove_failed"}

\* C24: cleanup_segments is called only after merge_segments returned Ok and
\* only with keep_segments false; with no_merge neither merge_segments nor
\* cleanup_segments is called, every chunk artifact is in place and run
\* returns Ok, which it does only after every chunk succeeded.
C24_CleanupGate ==
    /\ [](
          /\ (cleanup_calls > 0 \/ pc = "cleanup") =>
                /\ merge_calls = 1
                /\ merge_out = "ok"
                /\ keep_segments = Some(FALSE)
                /\ no_merge = Some(FALSE)
          /\ keep_segments = Some(TRUE) => cleanup_calls = 0 /\ pc = "run_ok"
          /\ no_merge = Some(TRUE) =>
                /\ merge_calls = 0
                /\ cleanup_calls = 0
                /\ merge_out = "none"
                /\ pc = "run_ok"
                /\ BagCardinality(results) = CopiesIn(OkResult, results)
                /\ \A i \in Chunks : files[i] \in {"complete", Written})
    /\ [][no_merge' = Some(TRUE) => files' = files]_vars

\* Both halves are reached in different runs; this is the run that cleans
\* up after a merge of two chunks.
C24_Witness ==
    /\ cleanup_calls = 1
    /\ NChunks = 2
    /\ keep_segments = Some(FALSE)
    /\ \A i \in Chunks : files[i] = "absent"

\* C30: cleanup_segments removes no file but index0.ts .. index<n-1>.ts of
\* the run: the merged output that the muxer wrote into the segment
\* directory is still there after it, whatever its name, and so is every
\* file index<k>.ts with k >= n.
C30_CleanupRemovesOnlyChunks ==
    [][pc = "cleanup" =>
          /\ output' = output
          /\ \A k \in DOMAIN files \ Chunks : files'[k] = files[k]]_vars

\* C26: with every request, sleep and file operation completing, a call of
\* download_segments returns, whatever args.threads is, 0 included.
C26_DownloadReturns == (pc = "downloading") ~> (pc = "downloaded")

\* C27: with a key descriptor whose method is NONE no key request is sent
\* and no chunk is decrypted: every chunk fetched is written as it came.
MethodNone == IsSome(key_info) /\ Unwrap(key_info).method = "NONE"
C27_NoneMeansNoDecryption ==
    MethodNone =>
       /\ \A i \in TaskIds : Live(i) => tasks[i].keyreq = 0
       /\ \A i \in DOMAIN files : files[i] # "decrypted"

\* C28: a task whose key response has a non-success status ends in failure:
\* it does not go on to download_segment with the body as its key.
is_success(status) == status \in 200..299
C28_KeyStatusChecked ==
    [][\A i \in TaskIds :
         (tasks[i].st = "keybody" /\ ~is_success(tasks[i].keystatus)
            /\ tasks'[i] # tasks[i])
            => tasks'[i].st = "err"]_vars

\* C29: the progress bar is moved once by every task that ends, so that it
\* stands at the number of chunks when download_segments returns one
\* outcome per chunk.
C29_ProgressCountsAll ==
    (Returned /\ ~SomeUriBad) => pb_pos = NChunks

\* --------------------------------------------- properties of the key material
\* What an IV attribute denotes: its hexadecimal digits, two per byte, after
\* an optional leading 0x; it is well formed when these are digits in pairs.
Without0x(a) ==
    IF Len(a) >= 2 /\ a[1] = "0" /\ a[2] = "x" THEN SubSeq(a, 3, Len(a)) ELSE a
IsDigit(c) == \E k \in 1..16 : HexChars[k] = c
DigitValue(c) == (CHOOSE k \in 1..16 : HexChars[k] = c) - 1
IsHexString(a) ==
    /\ Len(Without0x(a)) % 2 = 0
    /\ \A j \in 1..Len(Without0x(a)) : IsDigit(Without0x(a)[j])
Denoted(a) ==
    [j \in 1..(Len(Without0x(a)) \div 2) |->
        16 * DigitValue(Without0x(a)[2 * j - 1]) + DigitValue(Without0x(a)[2 * j])]
\* The leading 16 bytes, zero bytes where there are none.
First16(b) == [j \in 1..16 |-> IF j <= Len(b) THEN b[j] ELSE 0]
\* The n-byte big-endian encoding of i.
RECURSIVE BigEndian(_, _)
BigEndian(i, n) ==
    IF n = 0 THEN <<>> ELSE Append(BigEndian(i \div 256, n - 1), i % 256)
HasIvBytes == kpc \in {"iv_decoded", "ready"}

\* C11: the IV handed to download_segment for a tag whose IV attribute is a
\* well-formed hexadecimal string is the bytes that string denotes, cut or
\* zero-padded to 16 bytes.
C11_IvFromAttribute ==
    (kpc = "ready" /\ IsSome(iv_attr) /\ IsHexString(Unwrap(iv_attr)))
        => iv_bytes = First16(Denoted(Unwrap(iv_attr)))

\* C12: for a tag without IV attribute the IV of chunk i is the 16-byte
\* big-endian encoding of i, it never fails to decode, and it differs from
\* the IV the same code derives for any other index.
C12_DefaultIv ==
    iv_attr = None
        => /\ kpc # "iv_err"
           /\ kpc = "ready"
                => /\ Len(iv_bytes) = 16
                   /\ iv_bytes = BigEndian(idx, 16)
                   /\ \A j \in Indices \ {idx} :
                         iv_bytes # Normalize16(hex_decode(
                                        trim_start_matches_0x(IvStrOf(None, j))))

\* Chunk 5 of a run whose key tag has no IV: fifteen zero bytes and 5.
C12_Witness ==
    /\ kpc = "ready"
    /\ iv_attr = None
    /\ idx = 5
    /\ iv_bytes = <<0, 0, 0, 0, 0, 0, 0, 0, 0, 0, 0, 0, 0, 0, 0, 5>>

\* C13: the key and the IV handed to download_segment are 16 bytes: the
\* leading 16 bytes of the key response / of the decoded IV when that is
\* longer, all of it followed by zero bytes when it is shorter.
IsNormalized(out, in) ==
    /\ Len(out) = 16
    /\ \A j \in 1..16 : out[j] = IF j <= Len(in) THEN in[j] ELSE 0
C13_Normalized16 ==
    /\ kpc \in {"key_ready", "iv_decoded", "iv_err", "ready"}
          => IsNormalized(key_bytes, key_resp)
    /\ kpc = "ready" => IsNormalized(iv_bytes, iv_decoded)

\* A key response of 40 bytes and a decoded IV of 10 bytes, both made 16.
C13_Witness ==
    /\ kpc = "ready"
    /\ Len(key_resp) = 40
    /\ Len(iv_decoded) = 10
    /\ Len(key_bytes) = 16
    /\ Len(iv_bytes) = 16

\* C17: for a tag whose IV attribute is not well-formed hexadecimal the
\* task gets no IV bytes: the decoding fails and the task ends.
C17_MalformedIvFails ==
    (IsSome(iv_attr) /\ ~IsHexString(Unwrap(iv_attr))) => ~HasIvBytes

\* ---------------------------------------------------- properties of crypto.rs
\* The blocks of the input decrypted, before the padding is looked at, and
\* whether they end in a PKCS#7 padding.
RawBlocks == CbcDecrypt(ckey, civ, encrypted_data, 1)
WholeBlocks == Len(encrypted_data) % 16 = 0
PaddingValid ==
    /\ RawBlocks # <<>>
    /\ \E n \in 1..16 :
          /\ RawBlocks[Len(RawBlocks)] = n
          /\ \A j \in 0..(n - 1) : RawBlocks[Len(RawBlocks) - j] = n

\* C20: decrypt_data returns the plaintext for the CBC encryption of the
\* PKCS#7-padded plaintext under the same 16-byte key and IV; for an input
\* that is not whole 16-byte blocks, or whose last block does not end in a
\* padding, it returns an Err, which holds no bytes.
C20_DecryptRoundTrip ==
    cpc = "done"
        => LET res == Unwrap(decrypted) IN
           /\ tamper = "none" => res = [ok |-> TRUE, bytes |-> plaintext]
           /\ (~WholeBlocks \/ ~PaddingValid) => ~res.ok
           /\ ~res.ok => res.bytes = <<>>

\* A plaintext of 33 bytes, three blocks once padded, came back.
C20_Witness ==
    /\ cpc = "done"
    /\ tamper = "none"
    /\ Len(plaintext) = 33
    /\ Len(encrypted_data) = 48
    /\ Unwrap(decrypted).ok
    /\ Unwrap(decrypted).bytes = plaintext

\* --------------------------------- properties of main.rs beside downloader.rs
\* C25: against the same responses, download_segment of the binary and
\* download_segment of the library end the chunk alike, Ok or Err, after the
\* same number of requests (the library sends up to MAX_RETRIES).
C25_BinaryLikeLibrary ==
    (Terminal(lib_task) /\ Terminal(bin_task)) =>
       /\ bin_task.st = lib_task.st
       /\ bin_task.attempt = lib_task.attempt

====
